---- MODULE Spec2Model ----
(***************************************************************************)
(* Model of the CV lexer (src/lexer/src/lib.rs, src/lexer/src/tokens.rs).  *)
(*                                                                         *)
(* A source buffer is a sequence of characters.  A character is a string:  *)
(* the ASCII characters stand for themselves, NBSP is U+00A0 (white space, *)
(* two bytes in UTF-8) and EACUTE is U+00E9 (alphanumeric, two bytes).     *)
(* The cursor `position` counts characters (peek_char uses chars().nth),   *)
(* while the two slices `&self.content[start..self.position]` index the    *)
(* buffer by bytes; Slice models the byte-indexed slice, its panic on an   *)
(* index inside a character included.                                      *)
(***************************************************************************)
EXTENDS Integers, Sequences, FiniteSets, TLC

VARIABLES content, position, error_state, result, tk_result, called_at

vars == <<content, position, error_state, result, tk_result, called_at>>

(***************************** bounds **************************************)
MaxLen == 4
MaxPairLen == 2
MaxNumLen == 5
MaxPieces == 2
MaxCommentPieces == 4
MaxIterLen == 3

(***************************** characters **********************************)
NBSP == "U+00A0"
EACUTE == "U+00E9"
NoChar == "<none>"

Digits == {"0", "1", "2", "3", "4", "5", "6", "7", "8", "9"}
Lower == {"a", "b", "c", "d", "e", "f", "g", "h", "i", "j", "k", "l", "m",
          "n", "o", "p", "q", "r", "s", "t", "u", "v", "w", "x", "y", "z"}
Upper == {"A", "B", "C", "D", "E", "F", "G", "H", "I", "J", "K", "L", "M",
          "N", "O", "P", "Q", "R", "S", "T", "U", "V", "W", "X", "Y", "Z"}

\* number of bytes of the character's UTF-8 encoding
Width(c) == IF c \in {NBSP, EACUTE} THEN 2 ELSE 1

is_whitespace(c) == c \in {" ", "\t", "\n", "\r", NBSP}
is_digit(c) == c \in Digits
is_alphanumeric(c) == c \in Lower \cup Upper \cup Digits \cup {EACUTE}

DigitVal(c) ==
  CASE c = "0" -> 0 [] c = "1" -> 1 [] c = "2" -> 2 [] c = "3" -> 3
    [] c = "4" -> 4 [] c = "5" -> 5 [] c = "6" -> 6 [] c = "7" -> 7
    [] c = "8" -> 8 [] c = "9" -> 9

(***************************** token model *********************************)
NoValue == [ty |-> "None", neg |-> FALSE, whole |-> <<>>, frac |-> <<>>]
Span(start, end) == [start |-> start, end |-> end]
NoTok == [kind |-> "None", text |-> <<>>, value |-> NoValue, span |-> Span(0, 0)]
NoErr == [kind |-> "None", ch |-> NoChar, pos |-> 0]

\* a Token::new whose span ends one past the last character
Token_new_end_exclusive(kind, text, value, start, len) ==
  [kind |-> kind, text |-> text, value |-> value, span |-> Span(start, start + len)]

\* Token::new: end = start + len - 1
Token_new(kind, text, value, start, len) ==
  [kind |-> kind, text |-> text, value |-> value, span |-> Span(start, start + len - 1)]

is_single_char_token(t) == t.span.start = t.span.end

UnexpectedCharacter(c, p) == [kind |-> "UnexpectedCharacter", ch |-> c, pos |-> p]
InvalidNumberFormat(p) == [kind |-> "InvalidNumberFormat", ch |-> NoChar, pos |-> p]

\* Result<Option<Token>>, and the abort of the call by a panic
OkSome(t) == [tag |-> "Some", tok |-> t, err |-> NoErr]
OkNone == [tag |-> "None", tok |-> NoTok, err |-> NoErr]
Err(e) == [tag |-> "Err", tok |-> NoTok, err |-> e]
Panic == [tag |-> "Panic", tok |-> NoTok, err |-> NoErr]
NoCall == [tag |-> "NoCall", tok |-> NoTok, err |-> NoErr]

\* what a call leaves: the cursor and the returned value
Out(p, r) == [pos |-> p, res |-> r]

(***************************** the buffer **********************************)
NChars == Len(content)

\* peek_char(num_ahead) with the cursor at p: content.chars().nth(p + num_ahead)
peek_char(p, num_ahead) ==
  IF p + num_ahead < NChars THEN content[p + num_ahead + 1] ELSE NoChar

advance(p, steps) == p + steps

RECURSIVE ByteOff(_)
\* byte offset of the character with index i (i = NChars: the byte length)
ByteOff(i) == IF i = 0 THEN 0 ELSE ByteOff(i - 1) + Width(content[i])

IsCharBoundary(b) == \E i \in 0..NChars : ByteOff(i) = b

CharAt(b) == CHOOSE i \in 0..NChars : ByteOff(i) = b

\* &self.content[a..b] for a <= b <= NChars: panics unless both byte indexes
\* are character boundaries
SliceOk(a, b) == IsCharBoundary(a) /\ IsCharBoundary(b)
Slice(a, b) == SubSeq(content, CharAt(a) + 1, CharAt(b))

RECURSIVE ByteLen(_)
\* str::len of a text: its length in bytes
ByteLen(text) == IF text = <<>> THEN 0 ELSE Width(Head(text)) + ByteLen(Tail(text))

(***************************** number parsing ******************************)
I64MaxDigits == <<"9", "2", "2", "3", "3", "7", "2", "0", "3", "6", "8", "5", "4", "7", "7", "5", "8", "0", "7">>
I64MinDigits == <<"9", "2", "2", "3", "3", "7", "2", "0", "3", "6", "8", "5", "4", "7", "7", "5", "8", "0", "8">>

AllDigits(t) == \A i \in 1..Len(t) : is_digit(t[i])
HasSign(t) == t # <<>> /\ Head(t) \in {"+", "-"}
Unsigned(t) == IF HasSign(t) THEN Tail(t) ELSE t

RECURSIVE StripLeadingZeros(_)
StripLeadingZeros(t) ==
  IF Len(t) > 1 /\ Head(t) = "0" THEN StripLeadingZeros(Tail(t)) ELSE t

RECURSIVE StripTrailingZeros(_)
StripTrailingZeros(t) ==
  IF t # <<>> /\ t[Len(t)] = "0" THEN StripTrailingZeros(SubSeq(t, 1, Len(t) - 1)) ELSE t

RECURSIVE LexLeq(_, _)
\* a <= b for two digit sequences of the same length
LexLeq(a, b) ==
  IF a = <<>> THEN TRUE
  ELSE IF DigitVal(Head(a)) # DigitVal(Head(b)) THEN DigitVal(Head(a)) < DigitVal(Head(b))
  ELSE LexLeq(Tail(a), Tail(b))

\* a <= b for two decimal numerals without leading zeros
DigitsLeq(a, b) == Len(a) < Len(b) \/ (Len(a) = Len(b) /\ LexLeq(a, b))

IsZero(d) == \A i \in 1..Len(d) : d[i] = "0"

\* str::parse::<i64>: an optional sign, then one or more ASCII digits, the value
\* within -2^63 .. 2^63 - 1.  The value is kept as a decimal numeral.
ParseI64(t) ==
  LET body == Unsigned(t)
      neg == HasSign(t) /\ Head(t) = "-"
      mag == StripLeadingZeros(body)
  IN IF body = <<>> \/ ~AllDigits(body) THEN [ok |-> FALSE, value |-> NoValue]
     ELSE IF ~DigitsLeq(mag, IF neg THEN I64MinDigits ELSE I64MaxDigits)
       THEN [ok |-> FALSE, value |-> NoValue]
     ELSE [ok |-> TRUE,
           value |-> [ty |-> "Integer", neg |-> neg /\ ~IsZero(mag),
                      whole |-> mag, frac |-> <<>>]]

DotCount(t) == Cardinality({i \in 1..Len(t) : t[i] = "."})
DotAt(t) == CHOOSE i \in 1..Len(t) : t[i] = "."

\* digits with at most one '.', at least one digit
IsDecimal(t) ==
  /\ \A i \in 1..Len(t) : is_digit(t[i]) \/ t[i] = "."
  /\ DotCount(t) <= 1
  /\ \E i \in 1..Len(t) : is_digit(t[i])

\* str::parse::<f64> on a text without letters: an optional sign, then a
\* decimal.  (The other accepted forms, an exponent and inf/nan, need a letter.)
\* The value is kept as the exact decimal; rounding to binary64 is not modelled.
ParseF64(t) ==
  LET body == Unsigned(t)
      neg == HasSign(t) /\ Head(t) = "-"
      whole == IF DotCount(body) = 0 THEN body ELSE SubSeq(body, 1, DotAt(body) - 1)
      frac == IF DotCount(body) = 0 THEN <<>> ELSE SubSeq(body, DotAt(body) + 1, Len(body))
  IN IF ~IsDecimal(body) THEN [ok |-> FALSE, value |-> NoValue]
     ELSE [ok |-> TRUE,
           value |-> [ty |-> "Float", neg |-> neg,
                      whole |-> StripLeadingZeros(IF whole = <<>> THEN <<"0">> ELSE whole),
                      frac |-> StripTrailingZeros(frac)]]

(***************************** the lexer ***********************************)
RECURSIVE skip_whitespace_eats_newline(_)
\* a skip_whitespace that does not stop at a newline
skip_whitespace_eats_newline(p) ==
  LET c == peek_char(p, 0)
  IN IF c # NoChar /\ is_whitespace(c)
       THEN skip_whitespace_eats_newline(advance(p, 1))
       ELSE p

RECURSIVE skip_whitespace(_)
\* the cursor after skip_whitespace, started at p
skip_whitespace(p) ==
  LET c == peek_char(p, 0)
  IN IF c # NoChar /\ is_whitespace(c) /\ c # "\n"
       THEN skip_whitespace(advance(p, 1))
       ELSE p

\* a create_simple_token that takes the token's start after it has advanced
create_simple_token_starts_late(p, kind, length) ==
  [pos |-> advance(p, length),
   tok |-> Token_new(kind, <<>>, NoValue, advance(p, length), length)]

\* create_simple_token at cursor p: the cursor and the token it leaves
create_simple_token(p, kind, length) ==
  [pos |-> advance(p, length), tok |-> Token_new(kind, <<>>, NoValue, p, length)]

\* a create_optional_eq_token that never looks ahead
create_optional_eq_token_never_eq(p, without_eq_kind, with_eq_kind) ==
  [pos |-> advance(p, 1), tok |-> Token_new(without_eq_kind, <<>>, NoValue, p, 1)]

create_optional_eq_token(p, without_eq_kind, with_eq_kind) ==
  IF peek_char(p, 1) = "="
    THEN [pos |-> advance(p, 2), tok |-> Token_new(with_eq_kind, <<>>, NoValue, p, 2)]
    ELSE [pos |-> advance(p, 1), tok |-> Token_new(without_eq_kind, <<>>, NoValue, p, 1)]

RECURSIVE IdentEnd(_)
\* the loop of get_identifier_string
IdentEnd(p) ==
  LET c == peek_char(p, 0)
  IN IF c # NoChar /\ (is_alphanumeric(c) \/ c = "_")
       THEN IdentEnd(advance(p, 1))
       ELSE p

\* get_identifier_string at cursor p: the cursor it leaves and the byte slice
\* content[p..cursor] (ok = FALSE: the slice panics)
get_identifier_string(p) ==
  LET e == IdentEnd(p)
  IN [pos |-> e, ok |-> SliceOk(p, e),
      text |-> IF SliceOk(p, e) THEN Slice(p, e) ELSE <<>>]

KeywordKind(text) ==
  CASE text = <<"b", "r", "e", "a", "k">> -> "Break"
    [] text = <<"e", "l", "s", "e">> -> "Else"
    [] text = <<"e", "n", "d">> -> "End"
    [] text = <<"f", "a", "l", "s", "e">> -> "False"
    [] text = <<"f", "n">> -> "Fun"
    [] text = <<"f", "o", "r">> -> "For"
    [] text = <<"i", "f">> -> "If"
    [] text = <<"i", "n">> -> "In"
    [] text = <<"l", "o", "o", "p">> -> "Loop"
    [] text = <<"p", "a", "t", "c", "h">> -> "Patch"
    [] text = <<"r", "e", "c", "o", "r", "d">> -> "Record"
    [] text = <<"r", "e", "t", "u", "r", "n">> -> "Return"
    [] text = <<"t", "r", "u", "e">> -> "True"
    [] text = <<"u", "n", "i", "o", "n">> -> "Union"
    [] text = <<"w", "h", "e", "n">> -> "When"
    [] text = <<"a", "n", "d">> -> "And"
    [] text = <<"o", "r">> -> "Or"
    [] text = <<"n", "o", "t">> -> "Not"
    [] OTHER -> "Identifier"

RECURSIVE NumberEnd(_)
\* the loop of create_number_token
NumberEnd(p) ==
  LET c == peek_char(p, 0)
  IN IF c # NoChar /\ (is_digit(c) \/ c = ".")
       THEN NumberEnd(advance(p, 1))
       ELSE p

\* a create_number_token that puts the cursor back on the literal's first
\* character when the literal does not parse
create_number_token_rewinds(p) ==
  LET start == p
      e == NumberEnd(p)
      has_decimal_point == \E i \in (start + 1)..e : content[i] = "."
      length == e - start
      value == Slice(start, e)
      parsed == IF has_decimal_point THEN ParseF64(value) ELSE ParseI64(value)
  IN IF ~SliceOk(start, e) THEN Out(e, Panic)
     ELSE IF parsed.ok
       THEN Out(e, OkSome(Token_new("Number", <<>>, parsed.value, start, length)))
       ELSE Out(start, Err(InvalidNumberFormat(start)))

\* create_number_token at cursor p (the call `self.create_number_token()?`)
create_number_token(p) ==
  LET start == p
      e == NumberEnd(p)
      has_decimal_point == \E i \in (start + 1)..e : content[i] = "."
      length == e - start
      value == Slice(start, e)
      parsed == IF has_decimal_point THEN ParseF64(value) ELSE ParseI64(value)
  IN IF ~SliceOk(start, e) THEN Out(e, Panic)
     ELSE IF parsed.ok
       THEN Out(e, OkSome(Token_new("Number", <<>>, parsed.value, start, length)))
       ELSE Out(e, Err(InvalidNumberFormat(start)))

RECURSIVE LineCommentEnd_eats_newline(_)
\* a comment loop that consumes the newline as well
LineCommentEnd_eats_newline(p) ==
  LET c == peek_char(p, 0)
  IN IF c = NoChar THEN p
     ELSE IF c = "\n" THEN advance(p, 1)
     ELSE LineCommentEnd_eats_newline(advance(p, 1))

RECURSIVE LineCommentEnd(_)
\* the loop that skips a single-line comment: stops at '\n' or at the end
LineCommentEnd(p) ==
  LET c == peek_char(p, 0)
  IN IF c # NoChar /\ c # "\n" THEN LineCommentEnd(advance(p, 1)) ELSE p

RECURSIVE BlockCommentEnd_closes_on_star(_)
\* a comment loop that takes any '*' for the closing "*/"
BlockCommentEnd_closes_on_star(p) ==
  LET c == peek_char(p, 0)
  IN IF c = NoChar THEN p
     ELSE IF c = "*" THEN advance(p, 2)
     ELSE BlockCommentEnd_closes_on_star(advance(p, 1))

RECURSIVE BlockCommentEnd(_)
\* the loop that skips a multi-line comment: stops after the first "*/" or at the end
BlockCommentEnd(p) ==
  LET c == peek_char(p, 0)
  IN IF c = NoChar THEN p
     ELSE IF c = "*" /\ peek_char(p, 1) = "/" THEN advance(p, 2)
     ELSE BlockCommentEnd(advance(p, 1))

SimpleKind(c) ==
  CASE c = "@" -> "Mut" [] c = ";" -> "Semicolon" [] c = "," -> "Comma"
    [] c = "&" -> "Ampersand" [] c = "|" -> "Pipe"
    [] c = "{" -> "LeftBrace" [] c = "}" -> "RightBrace"
    [] c = "[" -> "LeftBracket" [] c = "]" -> "RightBracket"
    [] c = "(" -> "LeftParen" [] c = ")" -> "RightParen"
    [] c = "\n" -> "Newline" [] c = "'" -> "SingleQuote" [] c = "\"" -> "DoubleQuote"

SimpleChars == {"@", ";", ",", "&", "|", "{", "}", "[", "]", "(", ")", "\n", "'", "\""}

OkTok(x) == Out(x.pos, OkSome(x.tok))

\* the identifier arm of next_token
identifier_token(p) ==
  LET id == get_identifier_string(p)
      length == ByteLen(id.text)
      kind == KeywordKind(id.text)
      start == id.pos - length
  IN IF ~id.ok THEN Out(id.pos, Panic)
     ELSE Out(id.pos,
              OkSome(Token_new(kind, IF kind = "Identifier" THEN id.text ELSE <<>>,
                               NoValue, start, length)))

\* the arm `else { return Ok(None); }`
end_of_stream_steps(q) == Out(advance(q, 1), OkNone)

end_of_stream(q) == Out(q, OkNone)

\* the fall-through arm `char => Err(UnexpectedCharacter(char, self.position))`
unexpected_character_skips(char, q) == Out(advance(q, 1), Err(UnexpectedCharacter(char, q)))

unexpected_character(char, q) == Out(q, Err(UnexpectedCharacter(char, q)))

RECURSIVE next_token(_)
\* the body of next_token after skip_whitespace has left the cursor at q:
\* `if let Some(char) = self.peek_char(0) { match char { .. } } else { .. }`
match_char(q) ==
  LET char == peek_char(q, 0)
      c1 == peek_char(q, 1)
  IN IF char = NoChar THEN end_of_stream(q)
     ELSE IF char \in SimpleChars THEN OkTok(create_simple_token(q, SimpleKind(char), 1))
     ELSE IF char = "=" THEN OkTok(create_optional_eq_token(q, "Equal", "DoubleEqual"))
     ELSE IF char = "<" THEN OkTok(create_optional_eq_token(q, "LessThan", "LessEqual"))
     ELSE IF char = ">" THEN OkTok(create_optional_eq_token(q, "GreaterThan", "GreaterEqual"))
     ELSE IF char = "+" THEN OkTok(create_optional_eq_token(q, "Plus", "PlusEqual"))
     ELSE IF char = "%" THEN OkTok(create_optional_eq_token(q, "Modulo", "ModuloEqual"))
     ELSE IF char = "*" THEN OkTok(create_optional_eq_token(q, "Star", "TimesEqual"))
     ELSE IF char = ":" THEN
       IF c1 = ":" THEN OkTok(create_simple_token(q, "Scope", 2))
       ELSE OkTok(create_simple_token(q, "Colon", 1))
     ELSE IF char = "!" THEN
       IF c1 = "=" THEN OkTok(create_simple_token(q, "NotEqual", 2))
       ELSE Out(q, Err(UnexpectedCharacter("!", q)))
     ELSE IF char = "." THEN
       IF c1 = "." THEN
         IF peek_char(q, 2) = "=" THEN OkTok(create_simple_token(q, "RangeInclusive", 3))
         ELSE OkTok(create_simple_token(q, "Range", 2))
       ELSE OkTok(create_simple_token(q, "Dot", 1))
     ELSE IF char = "-" THEN
       IF c1 = ">" THEN OkTok(create_simple_token(q, "RightArrow", 2))
       ELSE IF c1 = "=" THEN OkTok(create_simple_token(q, "MinusEqual", 2))
       ELSE OkTok(create_simple_token(q, "Minus", 1))
     ELSE IF char = "/" THEN
       IF c1 = "/" THEN next_token(LineCommentEnd(advance(q, 2)))
       ELSE IF c1 = "*" THEN next_token(BlockCommentEnd(advance(q, 2)))
       ELSE IF c1 = "=" THEN OkTok(create_simple_token(q, "DivideEqual", 2))
       ELSE OkTok(create_simple_token(q, "Divide", 1))
     ELSE IF char \in Lower \cup Upper \cup {"_"} THEN identifier_token(q)
     ELSE IF is_digit(char) THEN create_number_token(q)
     ELSE unexpected_character(char, q)

\* next_token with the cursor at p: the cursor it leaves and what it returns
next_token(p) == match_char(skip_whitespace(p))

\* Lexer::error
error == error_state

\* the match of Iterator::next on what next_token returned (o) with the latch
\* es: the Err arm stores the error
Iterator_match(o, es) ==
  [pos |-> o.pos, res |-> o.res,
   error_state |-> IF o.res.tag = "Err" THEN o.res.err ELSE es]

\* Iterator::next with the cursor at p and the latch es: the cursor, the item
\* (Some(Ok(token)), None or Some(Err(e)), written as next_token's value) and
\* the latch it leaves
Iterator_next(p, es) == Iterator_match(next_token(p), es)

\* Result<Vec<Token>> of tokenize, and its abort by a panic; start is the cursor
\* the lexer had when tokenize was called
TkOk(ts, s) == [tag |-> "Ok", tokens |-> ts, err |-> NoErr, start |-> s]
TkErr(e, s) == [tag |-> "Err", tokens |-> <<>>, err |-> e, start |-> s]
TkPanic(s) == [tag |-> "Panic", tokens |-> <<>>, err |-> NoErr, start |-> s]
NotCalled == [tag |-> "NotCalled", tokens |-> <<>>, err |-> NoErr, start |-> 0]

RECURSIVE tokenize_loop(_, _, _, _)
\* one turn of the for loop of tokenize on the item `it` of the iterator:
\* `tokens.push(token_result?)`, or the return after the loop
tokenize_item(s, it, acc) ==
  CASE it.res.tag = "Some" -> tokenize_loop(s, it.pos, it.error_state, Append(acc, it.res.tok))
    [] it.res.tag = "Err" -> [pos |-> it.pos, error_state |-> it.error_state,
                              ret |-> TkErr(it.res.err, s)]
    [] it.res.tag = "None" -> [pos |-> it.pos, error_state |-> it.error_state,
                               ret |-> TkOk(acc, s)]
    [] it.res.tag = "Panic" -> [pos |-> it.pos, error_state |-> it.error_state,
                                ret |-> TkPanic(s)]

\* the for loop of tokenize: s the cursor at the call, p the cursor, es the
\* latch, acc the vector `tokens`
tokenize_loop(s, p, es, acc) == tokenize_item(s, Iterator_next(p, es), acc)

RECURSIVE tokenize_keeps_partial_loop(_, _, _, _)
tokenize_keeps_partial_loop(s, p, es, acc) ==
  LET it == Iterator_next(p, es)
  IN CASE it.res.tag = "Some" ->
            tokenize_keeps_partial_loop(s, it.pos, it.error_state, Append(acc, it.res.tok))
       [] it.res.tag = "Panic" -> [pos |-> it.pos, error_state |-> it.error_state,
                                   ret |-> TkPanic(s)]
       [] OTHER -> [pos |-> it.pos, error_state |-> it.error_state, ret |-> TkOk(acc, s)]

\* a tokenize that stops at the first error and returns the tokens it has
tokenize_keeps_partial(p, es) == tokenize_keeps_partial_loop(p, p, es, <<>>)

tokenize(p, es) == tokenize_loop(p, p, es, <<>>)

(***************************** source buffers ******************************)
RECURSIVE Family(_, _)
\* the concatenations of at most n pieces
Family(pieces, n) ==
  IF n = 0 THEN {<<>>}
  ELSE {<<>>} \cup {a \o b : a \in pieces, b \in Family(pieces, n - 1)}

Singles(alphabet) == {<<c>> : c \in alphabet}

Operators == {"=", "<", ">", "+", "%", "*", ":", "!", ".", "-", "/"}
AllChars == SimpleChars \cup Operators
            \cup {"o", "r", "F", "_", "1", " ", "\t", NBSP, EACUTE, "$"}
OpsAlphabet1 == {".", "=", "-", ">", "<", " "}
OpsAlphabet2 == {":", "!", "=", "+", "/", "$"}
NumAlphabet == {"1", ".", "-", NBSP, " "}
IdentAlphabet == {"o", "r", "_", NBSP, ";", EACUTE}
MixedAlphabet == {"1", ".", "$", "!", "x", " "}
IterAlphabet == {"1", ".", "$", NBSP, "/"}
Keywords == {<<"b", "r", "e", "a", "k">>,
             <<"e", "l", "s", "e">>,
             <<"e", "n", "d">>,
             <<"f", "a", "l", "s", "e">>,
             <<"f", "n">>,
             <<"f", "o", "r">>,
             <<"i", "f">>,
             <<"i", "n">>,
             <<"l", "o", "o", "p">>,
             <<"p", "a", "t", "c", "h">>,
             <<"r", "e", "c", "o", "r", "d">>,
             <<"r", "e", "t", "u", "r", "n">>,
             <<"t", "r", "u", "e">>,
             <<"u", "n", "i", "o", "n">>,
             <<"w", "h", "e", "n">>,
             <<"a", "n", "d">>,
             <<"o", "r">>,
             <<"n", "o", "t">>}
WordPieces == Keywords \cup {<<"F", "o", "r">>, <<"x">>, <<"_">>, <<"1">>,
                             <<" ">>, <<NBSP>>, <<EACUTE>>, <<";">>}
CommentPieces == {<<"/", "*">>, <<"*", "/">>, <<"/", "/">>, <<"x">>, <<"\n">>,
                  <<"/">>, <<"*">>, <<"$">>}

Buffers ==
  Family(Singles(OpsAlphabet1), MaxLen) \cup Family(Singles(OpsAlphabet2), MaxLen)
  \cup Family(Singles(IdentAlphabet), MaxLen) \cup Family(Singles(MixedAlphabet), MaxLen)
  \cup Family(Singles(AllChars), MaxPairLen)
  \cup Family(Singles(NumAlphabet), MaxNumLen)
  \cup Family(WordPieces, MaxPieces)
  \cup Family(CommentPieces, MaxCommentPieces)

(***************************** the state machine ***************************)
\* Lexer::new(content).  result is what the latest call of next_token or of
\* Iterator::next returned, called_at the cursor that call found, tk_result what
\* tokenize returned.
Init ==
  /\ content \in Buffers
  /\ position = 0
  /\ error_state = NoErr
  /\ result = NoCall
  /\ tk_result = NotCalled
  /\ called_at = 0

\* the lexer is still owned by the caller and no call has panicked
Usable == tk_result.tag = "NotCalled" /\ result.tag # "Panic"

\* a call of next_token
CallNextToken ==
  /\ Usable
  /\ LET o == next_token(position)
     IN position' = o.pos /\ result' = o.res
  /\ called_at' = position
  /\ UNCHANGED <<content, error_state, tk_result>>

\* a call of Iterator::next
CallIteratorNext ==
  /\ Usable
  /\ LET it == Iterator_next(position, error_state)
     IN position' = it.pos /\ result' = it.res /\ error_state' = it.error_state
  /\ called_at' = position
  /\ UNCHANGED <<content, tk_result>>

\* a call of tokenize, which consumes the lexer
CallTokenize ==
  /\ Usable
  /\ LET t == tokenize(position, error_state)
     IN position' = t.pos /\ error_state' = t.error_state /\ tk_result' = t.ret
  /\ UNCHANGED <<content, result, called_at>>

Next == CallNextToken \/ CallIteratorNext \/ CallTokenize

Spec == Init /\ [][Next]_vars

IterInit ==
  /\ content \in Family(Singles(IterAlphabet), MaxIterLen)
  /\ position = 0
  /\ error_state = NoErr
  /\ result = NoCall
  /\ tk_result = NotCalled
  /\ called_at = 0

\* a consumer that drives the lexer through the iterator alone and keeps asking
IterSpec == IterInit /\ [][CallIteratorNext]_vars /\ WF_vars(CallIteratorNext)

(***************************** vocabulary of the claims ********************)
\* result and the cursor are those of the latest call of next_token or of
\* Iterator::next: such a call was made and tokenize has not consumed the lexer
Called == result.tag # "NoCall" /\ tk_result.tag = "NotCalled"

\* a step that is a call of next_token or of Iterator::next
TokenCall == tk_result' = tk_result /\ result'.tag # "NoCall"

InlineWs(c) == is_whitespace(c) /\ c # "\n"

\* the first index from p on that holds no white space other than newline
FirstNonWs(p) ==
  CHOOSE q \in p..NChars :
    /\ \A i \in (p + 1)..q : InlineWs(content[i])
    /\ q < NChars => ~InlineWs(content[q + 1])

RECURSIVE PosAfter(_, _)
\* the cursor after n successive calls of next_token, the first with the cursor at s
PosAfter(s, n) == IF n = 0 THEN s ELSE next_token(PosAfter(s, n - 1)).pos

\* what the n-th of these calls returns
CallRes(s, n) == next_token(PosAfter(s, n - 1)).res

(***************************** C1 ******************************************)
\* C1: tokenize returns Ok(the tokens that successive next_token calls return
\* before the first None, in order) when none of these calls errors, and
\* Err(the first error of these calls) carrying no token otherwise; it aborts
\* only where one of these calls aborts.  Stated for a tokenize called with the
\* cursor anywhere; the fresh lexer is the case start = 0.
C1_TokenizeDrainsNextToken ==
  tk_result.tag # "NotCalled" =>
    LET s == tk_result.start
    IN \E n \in 0..NChars :
         /\ \A i \in 1..n : CallRes(s, i).tag = "Some"
         /\ LET last == CallRes(s, n + 1)
            IN CASE last.tag = "None" ->
                      tk_result = TkOk([i \in 1..n |-> CallRes(s, i).tok], s)
                 [] last.tag = "Err" ->
                      /\ tk_result.tag = "Err"
                      /\ tk_result.err = last.err
                      /\ tk_result.tokens = <<>>
                 [] last.tag = "Panic" -> tk_result.tag = "Panic"
                 [] OTHER -> FALSE

\* tokenize on a fresh lexer has returned the error of a call that came after
\* at least two tokens
C1_Witness ==
  /\ tk_result.tag = "Err"
  /\ tk_result.start = 0
  /\ CallRes(0, 1).tag = "Some"
  /\ CallRes(0, 2).tag = "Some"
  /\ CallRes(0, 3).tag = "Err"

(***************************** C2 ******************************************)
\* C2: on an empty buffer the first call returns Ok(None); and once a call of
\* next_token (or of Iterator::next) has returned Ok(None), every later call
\* returns Ok(None) and leaves the cursor where it was.
C2_EndOfStreamStable ==
  /\ [](Called /\ content = <<>> => result = OkNone /\ position = 0)
  /\ [][result.tag = "None" /\ TokenCall => result' = OkNone /\ position' = position]_vars

\* a call made with the cursor already at the end of a buffer that ends in white
\* space: an earlier call skipped that white space and returned Ok(None)
C2_Witness ==
  /\ Called
  /\ result = OkNone
  /\ called_at = NChars
  /\ NChars > 1
  /\ InlineWs(content[NChars])

(***************************** C3 ******************************************)
StartChars == SimpleChars \cup Operators \cup Lower \cup Upper \cup {"_"} \cup Digits

\* the character at index q cannot start a token
CannotStart(q) ==
  \/ content[q + 1] \notin StartChars
  \/ content[q + 1] = "!" /\ (q + 1 = NChars \/ content[q + 2] # "=")

IsUnexpected(r) == r.tag = "Err" /\ r.err.kind = "UnexpectedCharacter"

\* C3: when the character c that follows the white space (other than newline) at
\* the cursor cannot start a token, the call returns UnexpectedCharacter(c, p), p
\* the index of c, and leaves the cursor at p; an UnexpectedCharacter error always
\* names the character under the cursor it leaves; and every later call returns
\* the same error.
C3_UnexpectedCharacter ==
  /\ [](Called =>
          LET q == FirstNonWs(called_at)
          IN q < NChars /\ CannotStart(q) =>
               result = Err(UnexpectedCharacter(content[q + 1], q)) /\ position = q)
  /\ [](Called /\ IsUnexpected(result) =>
          /\ position = result.err.pos
          /\ position < NChars
          /\ content[position + 1] = result.err.ch
          /\ CannotStart(position))
  /\ [][IsUnexpected(result) /\ TokenCall => result' = result /\ position' = position]_vars

\* a call made with the cursor already on a rejected character that follows white
\* space: an earlier call skipped the white space and returned the same error
C3_Witness ==
  /\ Called
  /\ IsUnexpected(result)
  /\ called_at = position
  /\ position > 0
  /\ InlineWs(content[position])
  /\ result.err.ch = "!"

(***************************** C4 ******************************************)
NumberChar(c) == is_digit(c) \/ c = "."

\* the end of the maximal run of digits and '.' that begins at index s
RunEnd(s) ==
  CHOOSE e \in s..NChars :
    /\ \A i \in (s + 1)..e : NumberChar(content[i])
    /\ e < NChars => ~NumberChar(content[e + 1])

DotsIn(s, e) == Cardinality({i \in (s + 1)..e : content[i] = "."})

IsInvalidNumber(r) == r.tag = "Err" /\ r.err.kind = "InvalidNumberFormat"

\* C4: when the character that follows the white space at the cursor is a digit,
\* at index s, and the maximal run of digits and '.' that begins there holds two
\* or more '.', a call that returns returns InvalidNumberFormat(s).
C4_MalformedNumberAnchored ==
  Called /\ result.tag # "Panic" =>
    LET s == FirstNonWs(called_at)
    IN s < NChars /\ is_digit(content[s + 1]) /\ DotsIn(s, RunEnd(s)) >= 2 =>
         result = Err(InvalidNumberFormat(s))

(***************************** C5 ******************************************)
\* C5, as claimed: after a call that returns an error the cursor is the position
\* the error carries.
C5_CursorAtErrorPosition == Called /\ result.tag = "Err" => position = result.err.pos

\* C5, amended: after UnexpectedCharacter(c, p) the cursor is p, on c; after
\* InvalidNumberFormat(s) the cursor is past s, at the end of the maximal run of
\* digits and '.' that begins at s: the malformed text has been consumed.
C5_CursorAfterError ==
  /\ Called /\ IsUnexpected(result) =>
       /\ position = result.err.pos
       /\ position < NChars
       /\ content[position + 1] = result.err.ch
  /\ Called /\ IsInvalidNumber(result) =>
       LET s == result.err.pos
       IN /\ called_at <= s
          /\ s < position
          /\ is_digit(content[s + 1])
          /\ position = RunEnd(s)

\* a malformed number has been rejected and text follows it
C5_Witness ==
  /\ Called
  /\ IsInvalidNumber(result)
  /\ DotsIn(result.err.pos, position) >= 2
  /\ position < NChars

(***************************** C6 ******************************************)
\* C6: after a call of next_token or of Iterator::next has returned Err(e),
\* error() returns Some(e).
C6_ErrorLatched == Called /\ result.tag = "Err" => error = result.err

(***************************** C7 ******************************************)
\* C7, as claimed: a consumer that keeps calling Iterator::next reaches the end
\* of the iteration (None; a call that aborts ends the iteration too).
C7_IterationEnds == <>(result.tag \in {"None", "Panic"})

\* C7, amended: a consumer that keeps calling Iterator::next reaches None, or an
\* aborting call, or an UnexpectedCharacter error; and Iterator::next returns that
\* UnexpectedCharacter error again on every later call, so that the iteration
\* of a buffer with a rejected character never ends.
C7_IterationEndsOrSticks ==
  /\ <>(result.tag \in {"None", "Panic"} \/ IsUnexpected(result))
  /\ [][IsUnexpected(result) => result' = result /\ position' = position]_vars

\* the iteration of a buffer with a malformed number has ended
C7_Witness ==
  /\ result = OkNone
  /\ error_state.kind = "InvalidNumberFormat"
  /\ DotsIn(error_state.pos, NChars) >= 2

(***************************** C8 ******************************************)
\* the operator lexemes of the token table and their kinds
OperatorTable ==
  { <<<<":">>, "Colon">>, <<<<":", ":">>, "Scope">>, <<<<"-", ">">>, "RightArrow">>,
    <<<<".">>, "Dot">>, <<<<".", ".">>, "Range">>, <<<<".", ".", "=">>, "RangeInclusive">>,
    <<<<"*">>, "Star">>, <<<<"<">>, "LessThan">>, <<<<">">>, "GreaterThan">>,
    <<<<"+">>, "Plus">>, <<<<"-">>, "Minus">>, <<<<"/">>, "Divide">>,
    <<<<"%">>, "Modulo">>, <<<<"=">>, "Equal">>, <<<<"=", "=">>, "DoubleEqual">>,
    <<<<"!", "=">>, "NotEqual">>, <<<<"<", "=">>, "LessEqual">>,
    <<<<">", "=">>, "GreaterEqual">>, <<<<"+", "=">>, "PlusEqual">>,
    <<<<"-", "=">>, "MinusEqual">>, <<<<"*", "=">>, "TimesEqual">>,
    <<<<"/", "=">>, "DivideEqual">>, <<<<"%", "=">>, "ModuloEqual">> }

\* the lexeme lex stands in the buffer at index q
StandsAt(lex, q) ==
  q + Len(lex) <= NChars /\ SubSeq(content, q + 1, q + Len(lex)) = lex

\* a comment begins at index q
CommentAt(q) == StandsAt(<<"/", "/">>, q) \/ StandsAt(<<"/", "*">>, q)

\* C8: when the character that follows the white space at the cursor begins an
\* operator lexeme (and no comment), the call returns the token of the longest
\* operator lexeme of the table that stands there, its span that lexeme, and
\* leaves the cursor right after it.
C8_LongestOperator ==
  Called =>
    LET q == FirstNonWs(called_at)
        here == {e \in OperatorTable : StandsAt(e[1], q)}
    IN q < NChars /\ here # {} /\ ~CommentAt(q) =>
         LET best == CHOOSE e \in here : \A f \in here : Len(f[1]) <= Len(e[1])
         IN /\ result = OkSome([kind |-> best[2], text |-> <<>>, value |-> NoValue,
                                span |-> Span(q, q + Len(best[1]) - 1)])
            /\ position = q + Len(best[1])

\* the "..=" of "..==" has been lexed as RangeInclusive
C8_Witness ==
  /\ Called
  /\ result.tag = "Some"
  /\ result.tok.kind = "RangeInclusive"
  /\ peek_char(position, 0) = "="

(***************************** C9 ******************************************)
IdentChar(c) == is_alphanumeric(c) \/ c = "_"

\* the end of the maximal run of alphanumeric-or-underscore characters from s
IdentRunEnd(s) ==
  CHOOSE e \in s..NChars :
    /\ \A i \in (s + 1)..e : IdentChar(content[i])
    /\ e < NChars => ~IdentChar(content[e + 1])

\* C9: when the character that follows the white space at the cursor is an
\* ASCII letter or an underscore, a call that returns returns one token for the
\* maximal run of alphanumeric-or-underscore characters that begins there: the
\* keyword's kind if the whole run is a reserved word, and otherwise an
\* Identifier that carries the whole run.
C9_KeywordExactness ==
  Called /\ result.tag # "Panic" =>
    LET q == FirstNonWs(called_at)
    IN q < NChars /\ content[q + 1] \in Lower \cup Upper \cup {"_"} =>
         LET e == IdentRunEnd(q)
             run == SubSeq(content, q + 1, e)
         IN /\ result.tag = "Some"
            /\ position = e
            /\ result.tok.span = Span(q, e - 1)
            /\ run \in Keywords =>
                 result.tok.kind = KeywordKind(run) /\ result.tok.kind # "Identifier"
            /\ run \notin Keywords =>
                 result.tok.kind = "Identifier" /\ result.tok.text = run

(***************************** C10 *****************************************)
\* the end of a "//" comment whose text begins at index j: the next newline, or
\* the end of the buffer
LineEnd(j) ==
  CHOOSE e \in j..NChars :
    /\ \A i \in (j + 1)..e : content[i] # "\n"
    /\ e < NChars => content[e + 1] = "\n"

\* the end of a "/*" comment whose text begins at index j: right after the first
\* "*/" from j on, or the end of the buffer
BlockEnd(j) ==
  LET closes == {k \in j..NChars : StandsAt(<<"*", "/">>, k)}
  IN IF closes = {} THEN NChars
     ELSE (CHOOSE k \in closes : \A l \in closes : k <= l) + 2

RECURSIVE CommentScan(_)
\* the indexes from i on that lie in a comment, i outside any comment
CommentScan(i) ==
  IF i >= NChars THEN {}
  ELSE IF StandsAt(<<"/", "/">>, i)
    THEN LET e == LineEnd(i + 2) IN (i..(e - 1)) \cup CommentScan(e)
  ELSE IF StandsAt(<<"/", "*">>, i)
    THEN LET e == BlockEnd(i + 2) IN (i..(e - 1)) \cup CommentScan(e)
  ELSE CommentScan(i + 1)

CommentChars == CommentScan(0)

\* the first index from p on that is neither white space other than newline nor
\* part of a comment
FirstReal(p) ==
  CHOOSE q \in p..NChars :
    /\ \A i \in p..(q - 1) : InlineWs(content[i + 1]) \/ i \in CommentChars
    /\ q < NChars => ~InlineWs(content[q + 1]) /\ q \notin CommentChars

\* C10: a call that returns skips the comments that follow the cursor together
\* with the white space: its token begins at, its error names, the first
\* character that is neither white space other than newline nor part of a
\* comment, and it returns Ok(None) if there is none; no token covers a
\* character of a comment; a newline (the one that ends a "//" comment too) is
\* returned as a Newline token at its own index.  A "//" comment runs up to the
\* next newline, a "/*" comment through the first "*/" that follows.
C10_CommentElision ==
  Called /\ result.tag # "Panic" =>
    LET q == FirstReal(called_at)
    IN /\ result.tag = "Some" =>
            /\ result.tok.span.start = q
            /\ \A i \in result.tok.span.start..result.tok.span.end : i \notin CommentChars
       /\ result.tag = "None" => q = NChars /\ position = NChars
       /\ result.tag = "Err" => result.err.pos = q
       /\ q < NChars /\ content[q + 1] = "\n" =>
            /\ result = OkSome([kind |-> "Newline", text |-> <<>>, value |-> NoValue,
                                span |-> Span(q, q)])
            /\ position = q + 1

\* the call that found a "//" comment under the cursor has returned the newline
\* that ends it, and a token follows
C10_Witness ==
  /\ Called
  /\ StandsAt(<<"/", "/">>, called_at)
  /\ result.tag = "Some"
  /\ result.tok.kind = "Newline"
  /\ result.tok.span.start > called_at + 2
  /\ position < NChars

(***************************** C11 *****************************************)
\* C11: the span of every token a call returns ends at or after its start and
\* covers as many indexes as the call consumed characters for the token (the
\* characters from the first one that is neither skipped white space nor
\* comment up to the cursor the call leaves): at least one, and a token made
\* of one character has end = start.
C11_SpanInvariant ==
  Called /\ result.tag = "Some" =>
    LET t == result.tok
        consumed == position - FirstReal(called_at)
    IN /\ consumed >= 1
       /\ t.span.end >= t.span.start
       /\ t.span.end = t.span.start + consumed - 1
       /\ consumed = 1 => is_single_char_token(t)
       /\ is_single_char_token(t) => consumed = 1

\* an identifier of several characters, one of them of two bytes, was returned
C11_Witness ==
  /\ Called
  /\ result.tag = "Some"
  /\ result.tok.kind = "Identifier"
  /\ result.tok.span.end > result.tok.span.start
  /\ \E i \in result.tok.span.start..result.tok.span.end : content[i + 1] = EACUTE

(***************************** C12 *****************************************)
\* the lexemes of the keywords and of the one-character syntax tokens, with
\* their kinds
WordTable ==
  { <<<<"b", "r", "e", "a", "k">>, "Break">>, <<<<"e", "l", "s", "e">>, "Else">>,
    <<<<"e", "n", "d">>, "End">>, <<<<"f", "a", "l", "s", "e">>, "False">>,
    <<<<"f", "n">>, "Fun">>, <<<<"f", "o", "r">>, "For">>, <<<<"i", "f">>, "If">>,
    <<<<"i", "n">>, "In">>, <<<<"l", "o", "o", "p">>, "Loop">>,
    <<<<"p", "a", "t", "c", "h">>, "Patch">>, <<<<"r", "e", "c", "o", "r", "d">>, "Record">>,
    <<<<"r", "e", "t", "u", "r", "n">>, "Return">>, <<<<"t", "r", "u", "e">>, "True">>,
    <<<<"u", "n", "i", "o", "n">>, "Union">>, <<<<"w", "h", "e", "n">>, "When">>,
    <<<<"a", "n", "d">>, "And">>, <<<<"o", "r">>, "Or">>, <<<<"n", "o", "t">>, "Not">> }

SyntaxTable ==
  { <<<<"@">>, "Mut">>, <<<<";">>, "Semicolon">>, <<<<",">>, "Comma">>,
    <<<<"&">>, "Ampersand">>, <<<<"|">>, "Pipe">>, <<<<"{">>, "LeftBrace">>,
    <<<<"}">>, "RightBrace">>, <<<<"[">>, "LeftBracket">>, <<<<"]">>, "RightBracket">>,
    <<<<"(">>, "LeftParen">>, <<<<")">>, "RightParen">>, <<<<"'">>, "SingleQuote">>,
    <<<<"\"">>, "DoubleQuote">> }

\* token kind -> lexeme
LexemeTable == WordTable \cup SyntaxTable \cup OperatorTable

RECURSIVE EndsInOpenComment(_)
\* from index i on there is nothing but white space other than newline and
\* comments, the last of them a "/*" comment that no "*/" closes
EndsInOpenComment(i) ==
  IF i >= NChars THEN FALSE
  ELSE IF InlineWs(content[i + 1]) THEN EndsInOpenComment(i + 1)
  ELSE IF StandsAt(<<"/", "/">>, i) THEN EndsInOpenComment(LineEnd(i + 2))
  ELSE IF StandsAt(<<"/", "*">>, i)
    THEN \/ \A k \in (i + 2)..NChars : ~StandsAt(<<"*", "/">>, k)
         \/ EndsInOpenComment(BlockEnd(i + 2))
  ELSE FALSE

\* C13: every call comes back with the cursor between the cursor it found and
\* the end of the buffer; and a call that finds only white space and comments
\* up to a "/*" comment that is never closed consumes the rest of the buffer
\* and returns Ok(None), however many comments precede the open one.
C13_CallTerminates ==
  Called =>
    /\ called_at <= position
    /\ position <= NChars
    /\ EndsInOpenComment(called_at) => result = OkNone /\ position = NChars

\* the call skipped a closed comment and then an open one that holds text
C13_Witness ==
  /\ Called
  /\ StandsAt(<<"/", "*">>, called_at)
  /\ BlockEnd(called_at + 2) + 2 < NChars
  /\ StandsAt(<<"/", "*">>, BlockEnd(called_at + 2))
  /\ EndsInOpenComment(called_at)
  /\ result = OkNone
  /\ position = NChars

(***************************** C14 *****************************************)
\* C14: the text an Identifier token carries is the characters of the buffer
\* from span.start through span.end, and a call at an identifier returns.
C14_IdentifierText ==
  Called =>
    /\ result.tag = "Some" /\ result.tok.kind = "Identifier" =>
         LET t == result.tok
         IN /\ t.span.end < NChars
            /\ t.text = SubSeq(content, t.span.start + 1, t.span.end + 1)
    /\ result.tag # "Panic"

(***************************** C15 *****************************************)
\* C15: when the character that follows the white space at the cursor is a
\* digit, at index s, and the maximal run of digits and '.' that begins there
\* holds no '.', the call returns Number(Integer(v)), v the decimal value of the
\* run, with the run as its span, if v <= 2^63 - 1, and InvalidNumberFormat(s)
\* otherwise.
C15_IntegerValue ==
  Called =>
    LET s == FirstNonWs(called_at)
    IN s < NChars /\ is_digit(content[s + 1]) /\ DotsIn(s, RunEnd(s)) = 0 =>
         LET e == RunEnd(s)
             v == StripLeadingZeros(SubSeq(content, s + 1, e))
         IN IF DigitsLeq(v, I64MaxDigits)
              THEN /\ result.tag = "Some"
                   /\ result.tok.kind = "Number"
                   /\ result.tok.value = [ty |-> "Integer", neg |-> FALSE,
                                          whole |-> v, frac |-> <<>>]
                   /\ result.tok.span = Span(s, e - 1)
                   /\ position = e
              ELSE result = Err(InvalidNumberFormat(s))

(***************************** C16 *****************************************)
\* C16: the cursor is 0 when the lexer is constructed, no call of next_token,
\* of Iterator::next or of tokenize moves it back, and it never exceeds the
\* number of characters of the buffer.
C16_CursorMonotonic ==
  /\ position = 0
  /\ [](position <= NChars)
  /\ [][position' >= position]_vars

\* a second call has moved the cursor on to the end of the buffer
C16_Witness ==
  /\ Called
  /\ result.tag = "Some"
  /\ called_at > 0
  /\ position > called_at + 1
  /\ position = NChars

(***************************** C17 *****************************************)
\* index i holds white space other than newline or lies in a comment
Skippable(i) == InlineWs(content[i + 1]) \/ i \in CommentChars

\* the tokens ts cover the buffer from index s on in order: their spans follow
\* one another without overlap, an index lies in a span exactly if it is not
\* skippable, and the Newline tokens are, one each, the newlines outside
\* comments
CoversInOrder(ts, s) ==
  /\ \A k \in 1..(Len(ts) - 1) : ts[k + 1].span.start > ts[k].span.end
  /\ \A k \in 1..Len(ts) : s <= ts[k].span.start /\ ts[k].span.end < NChars
  /\ \A i \in s..(NChars - 1) :
        (\E k \in 1..Len(ts) : i \in ts[k].span.start..ts[k].span.end) <=> ~Skippable(i)
  /\ \A i \in s..(NChars - 1) :
        content[i + 1] = "\n" /\ i \notin CommentChars =>
          Cardinality({k \in 1..Len(ts) : ts[k].kind = "Newline" /\ ts[k].span = Span(i, i)}) = 1
  /\ \A k \in 1..Len(ts) :
        ts[k].kind = "Newline" => content[ts[k].span.start + 1] = "\n"

\* C17: a call that returns a token leaves the cursor right after the token's
\* span, having skipped only white space other than newline and comments
\* before it; a call that returns Ok(None) has skipped only such characters; a
\* token returned right after another begins after the other's end; and the
\* tokens of a run without error cover the buffer in order, every newline
\* outside a comment being exactly one Newline token.
C17_SourceOrder ==
  /\ [](Called /\ result.tag = "Some" =>
          /\ position = result.tok.span.end + 1
          /\ \A i \in called_at..(result.tok.span.start - 1) : Skippable(i))
  /\ [](Called /\ result.tag = "None" => \A i \in called_at..(NChars - 1) : Skippable(i))
  /\ [](tk_result.tag = "Ok" => CoversInOrder(tk_result.tokens, tk_result.start))
  /\ [][TokenCall /\ result.tag = "Some" /\ result'.tag = "Some" =>
          result'.tok.span.start > result.tok.span.end]_vars

\* a run without error over a buffer with a newline inside a block comment and
\* a newline outside has returned its tokens
C17_Witness ==
  /\ tk_result.tag = "Ok"
  /\ tk_result.start = 0
  /\ \E i \in CommentChars : content[i + 1] = "\n"
  /\ \E k \in 1..Len(tk_result.tokens) : tk_result.tokens[k].kind = "Newline"
====
